---------------------------- MODULE Spec2Model ----------------------------
(***************************************************************************)
(* Model of app/apploader/apploader_package.cpp:                           *)
(*   - get_key: derives a hwkey slot name, allocates a key buffer, opens   *)
(*     a hwkey session, fetches the slot's data, closes the session;       *)
(*   - apploader_parse_package_metadata: validates a decoded CBOR package  *)
(*     and fills the caller's metadata record.                             *)
(* Strings are sequences of one-character strings; "NUL" stands for the    *)
(* zero byte.                                                              *)
(***************************************************************************)
EXTENDS Integers, Sequences, FiniteSets, TLC

(***************************************************************************)
(* Bounds of the model.                                                    *)
(***************************************************************************)
\* operation strings: every string over OpAlphabet up to this length
MaxOpLen == 1
\* key ids 0 .. MaxSmallKeyId are explored, plus KeyIdSamples
MaxSmallKeyId == 12
\* stored key lengths within KeyLenSlack of kMaximumKeySize are explored
KeyLenSlack == 2

(***************************************************************************)
(* Program constants.                                                      *)
(***************************************************************************)
kMaximumKeySize == 128
UINT8_MAX == 255

\* the null unique_ptr
NULL == [null |-> TRUE, cap |-> 0]
NoSession == "no-session"
NoRc == "no-rc"

(***************************************************************************)
(* get_key: slot name derivation (lines 49-52).                            *)
(***************************************************************************)
SlotPrefix ==
    << "c","o","m",".","a","n","d","r","o","i","d",".",
       "t","r","u","s","t","y",".",
       "a","p","p","l","o","a","d","e","r","." >>

SeparatorLeftOut == << >>

Separator == << ".","k","e","y","." >>

DigitChar(d) == << "0","1","2","3","4","5","6","7","8","9" >>[d + 1]

\* std::to_string(unsigned): decimal digits, most significant first
RECURSIVE to_string(_)
to_string(n) ==
    IF n < 10 THEN << DigitChar(n) >>
    ELSE to_string(n \div 10) \o << DigitChar(n % 10) >>

\* static_cast<unsigned>(key_id) of a uint8_t
CastUnsigned(key_id) == key_id % (UINT8_MAX + 1)

KeySlot(op, key_id) ==
    SlotPrefix \o op \o Separator \o to_string(CastUnsigned(key_id))

\* key_slot.c_str() as hwkey reads it: the bytes up to the first zero byte
RECURSIVE c_str(_)
c_str(s) ==
    IF s = << >> \/ Head(s) = "NUL" THEN << >>
    ELSE << Head(s) >> \o c_str(Tail(s))

(***************************************************************************)
(* Inputs of get_key.                                                      *)
(***************************************************************************)
OpAlphabet == { "a", "1", "." }

RECURSIVE StringsUpTo(_)
StringsUpTo(n) ==
    IF n = 0 THEN { << >> }
    ELSE LET shorter == StringsUpTo(n - 1)
         IN  shorter \cup { s \o << c >> : s \in shorter, c \in OpAlphabet }

OpSamples ==
    { << "d","e","c","r","y","p","t" >>,
      << "s","i","g","n" >>,
      << "a",".","k","e","y",".","1" >>,
      << "a","NUL","b" >>,
      << "a","NUL","c" >> }

Ops == StringsUpTo(MaxOpLen) \cup OpSamples

KeyIdSamples == { 99, 100, UINT8_MAX }

KeyIds == { k \in (0 .. MaxSmallKeyId) \cup KeyIdSamples : k <= UINT8_MAX }

(***************************************************************************)
(* The hwkey service as get_key sees it.                                   *)
(***************************************************************************)
\* negative status codes of uapi/err.h
ERR_NOT_FOUND == -2
ERR_BAD_LEN == -9
ERR_CHANNEL_CLOSED == -11

Handles == { 0, 7 }

\* hwkey_open(): a session handle, or a negative status
HwkeyOpenResults == Handles \cup { ERR_NOT_FOUND, ERR_CHANNEL_CLOSED }

\* lengths of the key the store may hold for a slot
StoredKeyLens ==
    { 0, 1 } \cup
    ((kMaximumKeySize - KeyLenSlack) .. (kMaximumKeySize + KeyLenSlack))

\* hwkey_get_keyslot_data(session, slot, buf, &size) with *size = bound on
\* entry: the outcomes [rc, size (value of *size on return), written (bytes
\* stored into buf)].  A slot that is absent fails; a stored key longer than
\* the bound fails without writing, and may report its length through *size.
HwkeyGetKeyslotData(bound) ==
    { [rc |-> ERR_NOT_FOUND, size |-> bound, written |-> 0] }
    \cup { [rc |-> 0, size |-> l, written |-> l] :
             l \in { x \in StoredKeyLens : x <= bound } }
    \cup { [rc |-> ERR_BAD_LEN, size |-> s, written |-> 0] :
             s \in { bound } \cup { x \in StoredKeyLens : x > bound } }

(***************************************************************************)
(* get_key: values and control flow.                                       *)
(***************************************************************************)
\* return {}: a null buffer and size 0
EmptyResult == [buf |-> NULL, size |-> 0]

\* std::unique_ptr<uint8_t[]> result(new (std::nothrow) uint8_t[key_size])
Buffer(capacity) == [null |-> FALSE, cap |-> capacity]

\* uint32_t key_size = kMaximumKeySize (line 54)
InitialKeySize == kMaximumKeySize

\* if (rc < 0) after hwkey_open (line 62)
OpenFailed(rc) == rc < 0

FetchNeverFailed(rc) == FALSE

\* if (rc < 0) after hwkey_get_keyslot_data (line 73)
FetchFailed(rc) == rc < 0

PcAfterFetchSkipsCloseOnError(rc) == IF rc < 0 THEN "check" ELSE "close"

\* hwkey_close(hwkey_session) follows the fetch unconditionally (line 71)
PcAfterFetch(rc) == "close"

ResultOnFetchFailureKeepsBuffer(result, key_size) ==
    [buf |-> result, size |-> key_size]

\* return {} on a failed fetch (line 75)
ResultOnFetchFailure(result, key_size) == EmptyResult

\* return {std::move(result), static_cast<size_t>(key_size)} (line 78)
ResultOnSuccess(result, key_size) == [buf |-> result, size |-> key_size]

\* TLOGE messages of get_key
LogAlloc == [fmt |-> "Failed to allocate memory for key", args |-> << >>]
LogOpen(rc) == [fmt |-> "Failed to connect to hwkey (%ld)", args |-> << rc >>]
LogFetch(key_id, rc) ==
    [fmt |-> "Failed to get key %u from hwkey (%ld)", args |-> << key_id, rc >>]

NoLog == [fmt |-> "", args |-> << >>]
NoPrev == [fmt |-> "none", ret |-> EmptyResult]

VARIABLES
    k_pc,        \* position in get_key: idle, alloc, open, fetch, close, check, returned
    k_op,        \* argument op
    k_key_id,    \* argument key_id
    key_slot,    \* local key_slot
    key_size,    \* local key_size (in/out of the fetch)
    result,      \* local result: NULL or a Buffer
    rc,          \* local rc
    hwkey_session, \* local hwkey_session
    k_ret,       \* value returned by get_key
    k_log,       \* TLOGE message of this call
    svc,         \* hwkey service as driven by this call
    k_prev       \* message and return value of the previous call

kvars == << k_pc, k_op, k_key_id, key_slot, key_size, result, rc,
            hwkey_session, k_ret, k_log, svc, k_prev >>

VARIABLES
    p_pc,       \* position in apploader_parse_package_metadata
    pkg_item,   \* the decoder's result
    metadata,   \* the caller's struct apploader_package_metadata
    version,    \* local version (element 0 as read)
    headers,    \* local headers (element 1 as read)
    hdr_i,      \* position of the loop over headers
    elf_start,  \* local elf_start
    elf_size,   \* local elf_size
    manifest,   \* local manifest (element 3 as read)
    p_ret,      \* the value returned
    p_log,      \* TLOGE message of this call
    reads       \* array accesses made: << index, size of the array >>

pvars == << p_pc, pkg_item, metadata, version, headers, hdr_i, elf_start,
            elf_size, manifest, p_ret, p_log, reads >>

SvcInit ==
    [open |-> {}, opens |-> 0, closes |-> 0, bad_close |-> FALSE,
     req_slot |-> << >>, req_bound |-> 0, written |-> 0, reported |-> 0]

KeyInit ==
    /\ k_pc = "idle"
    /\ k_op = << >>
    /\ k_key_id = 0
    /\ key_slot = << >>
    /\ key_size = 0
    /\ result = NULL
    /\ rc = NoRc
    /\ hwkey_session = NoSession
    /\ k_ret = EmptyResult
    /\ k_log = NoLog
    /\ svc = SvcInit
    /\ k_prev = NoPrev

\* lines 46-54: entry, slot name, key_size
GetKeyCall(op, key_id) ==
    /\ k_pc = "idle"
    /\ k_pc' = "alloc"
    /\ k_op' = op
    /\ k_key_id' = key_id
    /\ key_slot' = KeySlot(op, key_id)
    /\ key_size' = InitialKeySize
    /\ result' = NULL
    /\ rc' = NoRc
    /\ hwkey_session' = NoSession
    /\ k_ret' = EmptyResult
    /\ k_log' = NoLog
    /\ svc' = SvcInit
    /\ UNCHANGED k_prev
    /\ UNCHANGED pvars

\* line 55: the allocation succeeds
GetKeyAllocOk ==
    /\ k_pc = "alloc"
    /\ result' = Buffer(key_size)
    /\ k_pc' = "open"
    /\ UNCHANGED << k_op, k_key_id, key_slot, key_size, rc, hwkey_session,
                    k_ret, k_log, svc, k_prev >>
    /\ UNCHANGED pvars

\* lines 55-59: the allocation fails
GetKeyAllocFail ==
    /\ k_pc = "alloc"
    /\ result' = NULL
    /\ k_log' = LogAlloc
    /\ k_ret' = EmptyResult
    /\ k_pc' = "returned"
    /\ UNCHANGED << k_op, k_key_id, key_slot, key_size, rc, hwkey_session,
                    svc, k_prev >>
    /\ UNCHANGED pvars

\* lines 61-67: hwkey_open and its check
GetKeyOpen(r) ==
    /\ k_pc = "open"
    /\ rc' = r
    /\ IF OpenFailed(r)
       THEN /\ k_log' = LogOpen(r)
            /\ k_ret' = EmptyResult
            /\ k_pc' = "returned"
            /\ UNCHANGED << hwkey_session, svc >>
       ELSE /\ hwkey_session' = r
            /\ svc' = [svc EXCEPT !.open = @ \cup { r }, !.opens = @ + 1]
            /\ k_pc' = "fetch"
            /\ UNCHANGED << k_log, k_ret >>
    /\ UNCHANGED << k_op, k_key_id, key_slot, key_size, result, k_prev >>
    /\ UNCHANGED pvars

\* lines 68-69: hwkey_get_keyslot_data
GetKeyFetch(out) ==
    /\ k_pc = "fetch"
    /\ out \in HwkeyGetKeyslotData(key_size)
    /\ rc' = out.rc
    /\ key_size' = out.size
    /\ svc' = [svc EXCEPT !.req_slot = c_str(key_slot),
                          !.req_bound = key_size,
                          !.written = out.written,
                          !.reported = out.size]
    /\ k_pc' = PcAfterFetch(out.rc)
    /\ UNCHANGED << k_op, k_key_id, key_slot, result, hwkey_session,
                    k_ret, k_log, k_prev >>
    /\ UNCHANGED pvars

\* line 71: hwkey_close
GetKeyClose ==
    /\ k_pc = "close"
    /\ svc' = [svc EXCEPT !.open = @ \ { hwkey_session },
                          !.closes = @ + 1,
                          !.bad_close = @ \/ hwkey_session \notin svc.open]
    /\ k_pc' = "check"
    /\ UNCHANGED << k_op, k_key_id, key_slot, key_size, result, rc,
                    hwkey_session, k_ret, k_log, k_prev >>
    /\ UNCHANGED pvars

\* lines 73-78: the fetch's check and the return
GetKeyCheck ==
    /\ k_pc = "check"
    /\ IF FetchFailed(rc)
       THEN /\ k_log' = LogFetch(k_key_id, rc)
            /\ k_ret' = ResultOnFetchFailure(result, key_size)
       ELSE /\ k_ret' = ResultOnSuccess(result, key_size)
            /\ UNCHANGED k_log
    /\ k_pc' = "returned"
    /\ UNCHANGED << k_op, k_key_id, key_slot, key_size, result, rc,
                    hwkey_session, svc, k_prev >>
    /\ UNCHANGED pvars

\* the caller takes the result; the next call may start
GetKeyDone ==
    /\ k_pc = "returned"
    /\ k_prev' = [fmt |-> k_log.fmt, ret |-> k_ret]
    /\ k_pc' = "idle"
    /\ k_op' = << >>
    /\ k_key_id' = 0
    /\ key_slot' = << >>
    /\ key_size' = 0
    /\ result' = NULL
    /\ rc' = NoRc
    /\ hwkey_session' = NoSession
    /\ k_ret' = EmptyResult
    /\ k_log' = NoLog
    /\ svc' = SvcInit
    /\ UNCHANGED pvars

(***************************************************************************)
(* apploader_parse_package_metadata: the decoded package.                  *)
(* cppbor::parseWithViews is an external decoder; its result is the input  *)
(* of the validation: a null item, or an item with semantic tags, a type   *)
(* and, for an array, elements.  A view is (start, size) into the package  *)
(* buffer.                                                                 *)
(***************************************************************************)
\* longest array explored; elements past index 3 are drawn from ExtraElems
MaxArrayLen == 5
\* most semantic tags on the root item
MaxTags == 2

\* constants of interface/apploader/apploader_package.h
APPLOADER_PACKAGE_CBOR_TAG_APP == 65536
APPLOADER_PACKAGE_FORMAT_VERSION_CURRENT == 1

\* values that differ from the constants, for the inputs
OtherTag == APPLOADER_PACKAGE_CBOR_TAG_APP + 1
OtherVersion == APPLOADER_PACKAGE_FORMAT_VERSION_CURRENT + 1
SomeLabel == 2 + 3

NullItem == [type |-> "nullptr"]

Uint(v) == [type |-> "uint", val |-> v]
Tstr(s) == [type |-> "tstr", val |-> s]
ViewBstr(start, size) == [type |-> "viewbstr", start |-> start, size |-> size]
Map(entries) == [type |-> "map", entries |-> entries]
Entry(label, value) == [label |-> label, value |-> value]

ViewA == ViewBstr(10, 4)
ViewB == ViewBstr(15, 2)

Elems ==
    { Uint(APPLOADER_PACKAGE_FORMAT_VERSION_CURRENT),
      Uint(OtherVersion),
      Map(<< >>),
      Map(<< Entry(Uint(SomeLabel), Uint(0)) >>),
      Map(<< Entry(Tstr("x"), Uint(0)), Entry(Uint(SomeLabel), Uint(0)) >>),
      Map(<< Entry(Uint(SomeLabel), Uint(0)), Entry(Tstr("x"), Uint(0)) >>),
      ViewA,
      ViewB }

ExtraElems == { ViewA }

RECURSIVE ArraysOfLen(_)
ArraysOfLen(n) ==
    IF n = 0 THEN { << >> }
    ELSE { a \o << e >> : a \in ArraysOfLen(n - 1),
                          e \in (IF n <= 4 THEN Elems ELSE ExtraElems) }

RECURSIVE TagsUpTo(_)
TagsUpTo(n) ==
    IF n = 0 THEN { << >> }
    ELSE LET fewer == TagsUpTo(n - 1)
         IN  fewer \cup { t \o << g >> : t \in fewer,
                            g \in { APPLOADER_PACKAGE_CBOR_TAG_APP, OtherTag } }

Root(tags, type, elems) == [type |-> type, tags |-> tags, elems |-> elems]

DecodedItems ==
    { NullItem }
    \cup { Root(t, "array", a) :
             t \in TagsUpTo(MaxTags),
             a \in UNION { ArraysOfLen(n) : n \in 0 .. MaxArrayLen } }
    \cup { Root(t, ty, << >>) : t \in TagsUpTo(MaxTags), ty \in { "map", "uint" } }

\* cppbor accessors
semanticTagCount(item) == Len(item.tags)
semanticTag(item) == item.tags[Len(item.tags)]
asArray(item) == IF item.type = "array" THEN item ELSE NullItem
asUint(item) == IF item.type = "uint" THEN item ELSE NullItem
asMap(item) == IF item.type = "map" THEN item ELSE NullItem
asViewBstr(item) == IF item.type = "viewbstr" THEN item ELSE NullItem
size(arr) == Len(arr.elems)

\* pkg_array->get(i): the element, or any item when i is past the end
\* (std::vector::operator[] out of range)
get(arr, i) ==
    IF i < Len(arr.elems) THEN { arr.elems[i + 1] } ELSE Elems

RecognizedLabelsNotEmpty == { SomeLabel }

\* enum apploader_package_header_label as the switch of lines 176-181 knows
\* it: no case besides default
RecognizedLabels == {}


SizeAtMostFour(n) == n <= 4

\* pkg_array->size() != 4 is the negation of this (line 153)
SizeIsFour(n) == n = 4

\* the metadata record of the caller before the call
OldMetadata ==
    [elf_start |-> -1, elf_size |-> -1,
     manifest_start |-> -1, manifest_size |-> -1]

MetadataAfterElfWritesEarly(md, elf) ==
    [md EXCEPT !.elf_start = elf.start, !.elf_size = elf.size]

\* lines 192-193 store the ELF view in locals; the metadata is not touched
MetadataAfterElf(md, elf) == md

FilledMetadataSwapped(md, e_start, e_size, mf) ==
    [md EXCEPT !.elf_start = mf.start,
               !.elf_size = mf.size,
               !.manifest_start = e_start,
               !.manifest_size = e_size]

\* lines 202-206
FilledMetadata(md, e_start, e_size, mf) ==
    [md EXCEPT !.elf_start = e_start,
               !.elf_size = e_size,
               !.manifest_start = mf.start,
               !.manifest_size = mf.size]

VersionNeverUnsupported(v) == FALSE

\* version->unsignedValue() != APPLOADER_PACKAGE_FORMAT_VERSION_CURRENT
\* (line 146)
VersionUnsupported(v) == v # APPLOADER_PACKAGE_FORMAT_VERSION_CURRENT

PcAfterTagCountSkipsTag == "array"

\* the tag value check (line 124) follows the tag count check
PcAfterTagCount == "tag"

\* TLOGE messages of apploader_parse_package_metadata
Log(fmt, args) == [fmt |-> fmt, args |-> args]
FmtDecode == "cppbor returned error: %s"
FmtTagCount == "Invalid package semantic tag count, expected 1 got %zd"
FmtTag == "Invalid package semantic tag: %u"
FmtArray == "Expected CBOR array"
FmtEmpty == "Application package array is empty"
FmtVersionType == "Invalid version field CBOR type, got: 0x%x"
FmtVersion == "Invalid package version, expected %u got %u"
FmtSize == "Invalid number of CBOR array elements: %zd"
FmtHeaders == "Invalid headers CBOR type, got: 0x%x"
FmtLabelType == "Invalid header label CBOR type, got: 0x%x"
FmtLabel == "Package headers contain invalid label: %u"
FmtElf == "Invalid ELF CBOR type, got: 0x%x"
FmtManifest == "Invalid manifest CBOR type, got: 0x%x"

Uninit == "uninitialized"
NoRet == "no-return"

PkgInit ==
    /\ p_pc = "idle"
    /\ pkg_item = NullItem
    /\ metadata = OldMetadata
    /\ version = NullItem
    /\ headers = NullItem
    /\ hdr_i = 0
    /\ elf_start = Uninit
    /\ elf_size = Uninit
    /\ manifest = NullItem
    /\ p_ret = NoRet
    /\ p_log = NoLog
    /\ reads = {}

\* return false with a message
Reject(msg) ==
    /\ p_log' = msg
    /\ p_ret' = FALSE
    /\ p_pc' = "returned"

Advance(pc) ==
    /\ p_pc' = pc
    /\ UNCHANGED << p_ret, p_log >>

\* lines 113-117
ParseCall(item) ==
    /\ p_pc = "idle"
    /\ pkg_item' = item
    /\ metadata' = OldMetadata
    /\ version' = NullItem
    /\ headers' = NullItem
    /\ hdr_i' = 0
    /\ elf_start' = Uninit
    /\ elf_size' = Uninit
    /\ manifest' = NullItem
    /\ reads' = {}
    /\ IF item = NullItem
       THEN Reject(Log(FmtDecode, << >>))
       ELSE /\ p_pc' = "tag_count"
            /\ p_ret' = NoRet
            /\ p_log' = NoLog
    /\ UNCHANGED kvars

\* lines 119-123
ParseTagCount ==
    /\ p_pc = "tag_count"
    /\ IF semanticTagCount(pkg_item) # 1
       THEN Reject(Log(FmtTagCount, << semanticTagCount(pkg_item) >>))
       ELSE Advance(PcAfterTagCount)
    /\ UNCHANGED << pkg_item, metadata, version, headers, hdr_i, elf_start,
                    elf_size, manifest, reads >>
    /\ UNCHANGED kvars

\* lines 124-128
ParseTag ==
    /\ p_pc = "tag"
    /\ IF semanticTag(pkg_item) # APPLOADER_PACKAGE_CBOR_TAG_APP
       THEN Reject(Log(FmtTag, << semanticTag(pkg_item) >>))
       ELSE Advance("array")
    /\ UNCHANGED << pkg_item, metadata, version, headers, hdr_i, elf_start,
                    elf_size, manifest, reads >>
    /\ UNCHANGED kvars

\* lines 130-134
ParseArray ==
    /\ p_pc = "array"
    /\ IF asArray(pkg_item) = NullItem
       THEN Reject(Log(FmtArray, << >>))
       ELSE Advance("empty")
    /\ UNCHANGED << pkg_item, metadata, version, headers, hdr_i, elf_start,
                    elf_size, manifest, reads >>
    /\ UNCHANGED kvars

\* lines 135-138
ParseEmpty ==
    /\ p_pc = "empty"
    /\ IF size(pkg_item) = 0
       THEN Reject(Log(FmtEmpty, << >>))
       ELSE Advance("version_type")
    /\ UNCHANGED << pkg_item, metadata, version, headers, hdr_i, elf_start,
                    elf_size, manifest, reads >>
    /\ UNCHANGED kvars

\* lines 140-145
ParseVersionType(e) ==
    /\ p_pc = "version_type"
    /\ e \in get(pkg_item, 0)
    /\ reads' = reads \cup { << 0, size(pkg_item) >> }
    /\ version' = asUint(e)
    /\ IF asUint(e) = NullItem
       THEN Reject(Log(FmtVersionType, << e.type >>))
       ELSE Advance("version")
    /\ UNCHANGED << pkg_item, metadata, headers, hdr_i, elf_start, elf_size,
                    manifest >>
    /\ UNCHANGED kvars

\* lines 146-151
ParseVersion ==
    /\ p_pc = "version"
    /\ IF VersionUnsupported(version.val)
       THEN Reject(Log(FmtVersion,
                       << APPLOADER_PACKAGE_FORMAT_VERSION_CURRENT,
                          version.val >>))
       ELSE Advance("size")
    /\ UNCHANGED << pkg_item, metadata, version, headers, hdr_i, elf_start,
                    elf_size, manifest, reads >>
    /\ UNCHANGED kvars

\* lines 153-157
ParseSize ==
    /\ p_pc = "size"
    /\ IF ~SizeIsFour(size(pkg_item))
       THEN Reject(Log(FmtSize, << size(pkg_item) >>))
       ELSE Advance("headers")
    /\ UNCHANGED << pkg_item, metadata, version, headers, hdr_i, elf_start,
                    elf_size, manifest, reads >>
    /\ UNCHANGED kvars

\* lines 159-164
ParseHeaders(e) ==
    /\ p_pc = "headers"
    /\ e \in get(pkg_item, 1)
    /\ reads' = reads \cup { << 1, size(pkg_item) >> }
    /\ headers' = asMap(e)
    /\ hdr_i' = 1
    /\ IF asMap(e) = NullItem
       THEN Reject(Log(FmtHeaders, << e.type >>))
       ELSE Advance("labels")
    /\ UNCHANGED << pkg_item, metadata, version, elf_start, elf_size,
                    manifest >>
    /\ UNCHANGED kvars

\* lines 167-182: one iteration of the loop over headers, or its end
ParseLabel ==
    /\ p_pc = "labels"
    /\ IF hdr_i > Len(headers.entries)
       THEN /\ Advance("elf")
            /\ UNCHANGED hdr_i
       ELSE LET label_item == headers.entries[hdr_i].label
            IN  IF asUint(label_item) = NullItem
                THEN /\ Reject(Log(FmtLabelType, << label_item.type >>))
                     /\ UNCHANGED hdr_i
                ELSE IF label_item.val \in RecognizedLabels
                THEN /\ Advance("labels")
                     /\ hdr_i' = hdr_i + 1
                ELSE /\ Reject(Log(FmtLabel, << label_item.val >>))
                     /\ UNCHANGED hdr_i
    /\ UNCHANGED << pkg_item, metadata, version, headers, elf_start,
                    elf_size, manifest, reads >>
    /\ UNCHANGED kvars

\* lines 184-193
ParseElf(e) ==
    /\ p_pc = "elf"
    /\ e \in get(pkg_item, 2)
    /\ reads' = reads \cup { << 2, size(pkg_item) >> }
    /\ IF asViewBstr(e) = NullItem
       THEN /\ Reject(Log(FmtElf, << e.type >>))
            /\ UNCHANGED << elf_start, elf_size, metadata >>
       ELSE /\ elf_start' = e.start
            /\ elf_size' = e.size
            /\ metadata' = MetadataAfterElf(metadata, e)
            /\ Advance("manifest")
    /\ UNCHANGED << pkg_item, version, headers, hdr_i, manifest >>
    /\ UNCHANGED kvars

\* lines 195-200
ParseManifest(e) ==
    /\ p_pc = "manifest"
    /\ e \in get(pkg_item, 3)
    /\ reads' = reads \cup { << 3, size(pkg_item) >> }
    /\ manifest' = asViewBstr(e)
    /\ IF asViewBstr(e) = NullItem
       THEN Reject(Log(FmtManifest, << e.type >>))
       ELSE Advance("fill")
    /\ UNCHANGED << pkg_item, metadata, version, headers, hdr_i, elf_start,
                    elf_size >>
    /\ UNCHANGED kvars

\* lines 202-208
ParseFill ==
    /\ p_pc = "fill"
    /\ metadata' = FilledMetadata(metadata, elf_start, elf_size, manifest)
    /\ p_ret' = TRUE
    /\ p_pc' = "returned"
    /\ UNCHANGED << pkg_item, version, headers, hdr_i, elf_start, elf_size,
                    manifest, p_log, reads >>
    /\ UNCHANGED kvars

\* the caller takes the result; the next call may start
ParseDone ==
    /\ p_pc = "returned"
    /\ p_pc' = "idle"
    /\ pkg_item' = NullItem
    /\ metadata' = OldMetadata
    /\ version' = NullItem
    /\ headers' = NullItem
    /\ hdr_i' = 0
    /\ elf_start' = Uninit
    /\ elf_size' = Uninit
    /\ manifest' = NullItem
    /\ p_ret' = NoRet
    /\ p_log' = NoLog
    /\ reads' = {}
    /\ UNCHANGED kvars

PkgNext ==
    \/ p_pc = "idle" /\ \E item \in DecodedItems : ParseCall(item)
    \/ ParseTagCount
    \/ ParseTag
    \/ ParseArray
    \/ ParseEmpty
    \/ \E e \in Elems : ParseVersionType(e)
    \/ ParseVersion
    \/ ParseSize
    \/ \E e \in Elems : ParseHeaders(e)
    \/ ParseLabel
    \/ \E e \in Elems : ParseElf(e)
    \/ \E e \in Elems : ParseManifest(e)
    \/ ParseFill
    \/ ParseDone

(***************************************************************************)
(* Specifications.                                                         *)
(***************************************************************************)
vars == << kvars, pvars >>

Init == KeyInit /\ PkgInit

KeyNext ==
    \/ k_pc = "idle" /\ \E op \in Ops, key_id \in KeyIds : GetKeyCall(op, key_id)
    \/ GetKeyAllocOk
    \/ GetKeyAllocFail
    \/ \E r \in HwkeyOpenResults : GetKeyOpen(r)
    \/ k_pc = "fetch" /\ \E out \in HwkeyGetKeyslotData(key_size) : GetKeyFetch(out)
    \/ GetKeyClose
    \/ GetKeyCheck
    \/ GetKeyDone

Next ==
    \/ KeyNext
    \/ PkgNext

\* both functions, interleaved
Spec == Init /\ [][Next]_vars

\* get_key alone
SpecKey == Init /\ [][KeyNext]_vars

\* apploader_parse_package_metadata alone
SpecPkg == Init /\ [][PkgNext]_vars

(***************************************************************************)
(* Properties of get_key (checked under SpecKey).                          *)
(***************************************************************************)
FmtAlloc == LogAlloc.fmt
FmtOpen == LogOpen(0).fmt
FmtFetch == LogFetch(0, 0).fmt

GetKeyReturned == k_pc = "returned"
GetKeySucceeded == k_pc = "returned" /\ ~k_ret.buf.null

\* C1: on every path of get_key (allocation failure, failed hwkey_open,
\* failed hwkey_get_keyslot_data, success) at most one session is opened,
\* hwkey_close is only ever called for a session that is open, every opened
\* session is closed exactly once, and no session is open at the return.
C1_SessionClosedOnEveryPath ==
    /\ svc.opens <= 1
    /\ svc.closes <= svc.opens
    /\ ~svc.bad_close
    /\ Cardinality(svc.open) = svc.opens - svc.closes
    /\ GetKeyReturned => svc.open = {} /\ svc.closes = svc.opens

\* the fetch failed after a session was opened, and the call has returned
C1_Witness ==
    /\ GetKeyReturned
    /\ k_log.fmt = FmtFetch
    /\ svc.opens = 1
    /\ svc.closes = 1

DigitChars == { DigitChar(d) : d \in 0 .. 9 }
DigitValue(c) == CHOOSE d \in 0 .. 9 : DigitChar(d) = c

\* value of a string of decimal digits
RECURSIVE DecimalValue(_)
DecimalValue(ds) ==
    IF ds = << >> THEN 0
    ELSE 10 * DecimalValue(SubSeq(ds, 1, Len(ds) - 1)) + DigitValue(ds[Len(ds)])

\* s is the decimal numeral of n: digits only, no leading zero, value n
IsDecimalOf(s, n) ==
    /\ Len(s) >= 1
    /\ \A i \in 1 .. Len(s) : s[i] \in DigitChars
    /\ Len(s) > 1 => s[1] # "0"
    /\ DecimalValue(s) = n

SlotWritten(op, digits) ==
    << "c","o","m",".","a","n","d","r","o","i","d",".",
       "t","r","u","s","t","y",".",
       "a","p","p","l","o","a","d","e","r","." >>
    \o op \o << ".","k","e","y","." >> \o digits

\* C8: the slot name get_key derives is
\* "com.android.trusty.apploader." + op + ".key." + decimal(key_id); for
\* ("decrypt", 3) it is "com.android.trusty.apploader.decrypt.key.3"; and no
\* other (op, key_id) pair derives the same name.
C8_SlotNameExactAndInjective ==
    k_pc = "alloc" =>
        /\ Len(key_slot) > Len(SlotPrefix) + Len(k_op) + 5
        /\ LET digits == SubSeq(key_slot, Len(SlotPrefix) + Len(k_op) + 6,
                                Len(key_slot))
           IN  /\ IsDecimalOf(digits, k_key_id)
               /\ key_slot = SlotWritten(k_op, digits)
        /\ k_op = << "d","e","c","r","y","p","t" >> /\ k_key_id = 3 =>
              key_slot = SlotWritten(<< "d","e","c","r","y","p","t" >>, << "3" >>)
        /\ \A op \in Ops, key_id \in KeyIds :
              << op, key_id >> # << k_op, k_key_id >> =>
                  KeySlot(op, key_id) # key_slot

\* the slot of ("decrypt", 3) has been derived
C8_Witness ==
    /\ k_pc = "alloc"
    /\ k_op = << "d","e","c","r","y","p","t" >>
    /\ k_key_id = 3
    /\ Len(key_slot) = 42

\* C9 as claimed: the value get_key returns tells the failures apart, so
\* two calls that failed for different causes returned different values.
C9_ReturnValueIdentifiesCause ==
    (/\ GetKeyReturned
     /\ k_ret.buf.null
     /\ k_prev.fmt \in { FmtAlloc, FmtOpen, FmtFetch }
     /\ k_prev.fmt # k_log.fmt)
        => k_prev.ret # k_ret

\* C9 as amended: each failure returns the same empty result (null buffer,
\* size 0); the cause is identified by the message logged: the allocation
\* message, the open message with hwkey_open's status, or the fetch message
\* with the key id and the fetch's status.  A success logs nothing and
\* returns the buffer.
C9_FailureIsEmptyResultCauseIsLogged ==
    GetKeyReturned =>
        /\ result.null => k_ret = EmptyResult /\ k_log = LogAlloc
        /\ ~result.null /\ svc.opens = 0 =>
              /\ rc < 0
              /\ k_ret = EmptyResult
              /\ k_log = LogOpen(rc)
        /\ svc.opens = 1 /\ rc < 0 =>
              /\ k_ret = EmptyResult
              /\ k_log = LogFetch(k_key_id, rc)
        /\ svc.opens = 1 /\ rc >= 0 =>
              /\ k_ret = [buf |-> result, size |-> key_size]
              /\ ~k_ret.buf.null
              /\ k_log = NoLog

\* a failed fetch returns what the failed open of the call before returned
C9_Witness ==
    /\ GetKeyReturned
    /\ k_log.fmt = FmtFetch
    /\ k_prev.fmt = FmtOpen
    /\ k_ret = EmptyResult
    /\ k_prev.ret = k_ret

(***************************************************************************)
(* Properties of apploader_parse_package_metadata (checked under SpecPkg). *)
(***************************************************************************)
ParseReturned == p_pc = "returned"
Rejected == p_pc = "returned" /\ p_ret = FALSE
Accepted == p_pc = "returned" /\ p_ret = TRUE

\* the rejection reason a message stands for
Reason(msg) ==
    CASE msg.fmt = FmtDecode -> "DecodeError"
      [] msg.fmt = FmtTagCount /\ msg.args[1] = 0 -> "MissingTag"
      [] msg.fmt = FmtTagCount /\ msg.args[1] > 1 -> "MultipleTags"
      [] msg.fmt = FmtTag -> "WrongTag"
      [] msg.fmt = FmtArray -> "NotAnArray"
      [] msg.fmt = FmtEmpty -> "EmptyArray"
      [] msg.fmt = FmtVersionType -> "BadVersionType"
      [] msg.fmt = FmtVersion -> "UnsupportedVersion"
      [] msg.fmt = FmtSize -> "WrongElementCount"
      [] msg.fmt = FmtHeaders -> "BadHeadersType"
      [] msg.fmt = FmtLabelType -> "BadHeaderLabelType"
      [] msg.fmt = FmtLabel -> "UnknownHeaderLabel"
      [] msg.fmt = FmtElf -> "BadContentsType"
      [] msg.fmt = FmtManifest -> "BadManifestType"
      [] OTHER -> "none"

Decoded == pkg_item # NullItem
OneCorrectTag == Decoded /\ pkg_item.tags = << APPLOADER_PACKAGE_CBOR_TAG_APP >>
TaggedArray == OneCorrectTag /\ pkg_item.type = "array"
Elem(i) == pkg_item.elems[i + 1]

\* C2: a decoded package with exactly one correct tag that is a non-empty
\* array whose element 0 is an unsigned integer other than the supported
\* version is rejected for its version, whatever the length of the array.
C2_VersionCheckedBeforeCount ==
    (/\ ParseReturned
     /\ TaggedArray
     /\ size(pkg_item) >= 1
     /\ Elem(0).type = "uint"
     /\ Elem(0).val # APPLOADER_PACKAGE_FORMAT_VERSION_CURRENT)
        => /\ p_ret = FALSE
           /\ Reason(p_log) = "UnsupportedVersion"

\* a package of another version with five elements has been rejected
C2_Witness ==
    /\ Rejected
    /\ TaggedArray
    /\ size(pkg_item) = 5
    /\ Elem(0) = Uint(OtherVersion)
    /\ Reason(p_log) = "UnsupportedVersion"

\* C3: until the call returns true the caller's metadata record is as it
\* was before the call, for every rejection; when it returns true all four
\* fields have been written.
C3_MetadataAllOrNothing ==
    /\ ~Accepted => metadata = OldMetadata
    /\ Accepted =>
          /\ metadata.elf_start # OldMetadata.elf_start
          /\ metadata.elf_size # OldMetadata.elf_size
          /\ metadata.manifest_start # OldMetadata.manifest_start
          /\ metadata.manifest_size # OldMetadata.manifest_size

\* the manifest was rejected after the contents element had been accepted
C3_Witness ==
    /\ Rejected
    /\ Reason(p_log) = "BadManifestType"
    /\ << 2, 4 >> \in reads
    /\ Elem(2).type = "viewbstr"

WellFormedPackage ==
    /\ TaggedArray
    /\ size(pkg_item) = 4
    /\ Elem(0) = Uint(APPLOADER_PACKAGE_FORMAT_VERSION_CURRENT)
    /\ Elem(1) = Map(<< >>)
    /\ Elem(2).type = "viewbstr"
    /\ Elem(3).type = "viewbstr"

\* C4: a singly tagged array of exactly 4 elements with the supported
\* version, an empty headers map and two byte-string views is accepted, and
\* the metadata holds the view of element 2 as the ELF range and the view
\* of element 3 as the manifest range.
C4_ValidPackageYieldsViews ==
    ParseReturned /\ WellFormedPackage =>
        /\ p_ret = TRUE
        /\ metadata.elf_start = Elem(2).start
        /\ metadata.elf_size = Elem(2).size
        /\ metadata.manifest_start = Elem(3).start
        /\ metadata.manifest_size = Elem(3).size

\* a package whose contents and manifest views differ has been accepted
C4_Witness ==
    /\ Accepted
    /\ WellFormedPackage
    /\ Elem(2) = ViewA
    /\ Elem(3) = ViewB

\* the package passes every check before the loop over the headers
ReachesHeaderLoop ==
    /\ TaggedArray
    /\ size(pkg_item) = 4
    /\ Elem(0) = Uint(APPLOADER_PACKAGE_FORMAT_VERSION_CURRENT)
    /\ Elem(1).type = "map"

HasUnknownLabel(m) ==
    \E i \in 1 .. Len(m.entries) :
        /\ m.entries[i].label.type = "uint"
        /\ m.entries[i].label.val \notin RecognizedLabels

\* C5 as claimed: a headers map that holds a label outside the recognized
\* enumeration is rejected as UnknownHeaderLabel, whatever else it holds.
C5_UnknownLabelAlwaysReported ==
    ParseReturned /\ ReachesHeaderLoop /\ HasUnknownLabel(Elem(1)) =>
        /\ p_ret = FALSE
        /\ Reason(p_log) = "UnknownHeaderLabel"

\* C5 as amended: a package with a non-empty headers map is never accepted;
\* one that reaches the loop over the headers is rejected on the first
\* entry iterated: as UnknownHeaderLabel when that entry's label is an
\* unsigned integer, as BadHeaderLabelType when it is not.
C5_NonEmptyHeadersRejectedOnFirstEntry ==
    /\ (/\ ParseReturned
        /\ Decoded
        /\ pkg_item.type = "array"
        /\ size(pkg_item) >= 2
        /\ Elem(1).type = "map"
        /\ Elem(1).entries # << >>) => p_ret = FALSE
    /\ (/\ ParseReturned
        /\ ReachesHeaderLoop
        /\ Elem(1).entries # << >>) =>
           Reason(p_log) =
               IF Elem(1).entries[1].label.type = "uint"
               THEN "UnknownHeaderLabel"
               ELSE "BadHeaderLabelType"

\* a map whose first label is a text string and whose second is an unknown
\* unsigned integer has been rejected for the first
C5_Witness ==
    /\ Rejected
    /\ ReachesHeaderLoop
    /\ Len(Elem(1).entries) = 2
    /\ Elem(1).entries[2].label = Uint(SomeLabel)
    /\ Reason(p_log) = "BadHeaderLabelType"

PastTagCheck ==
    \/ p_pc \in { "array", "empty", "version_type", "version", "size",
                  "headers", "labels", "elf", "manifest", "fill" }
    \/ /\ ParseReturned
       /\ p_ret = TRUE \/ p_log.fmt \notin { FmtDecode, FmtTagCount, FmtTag }

\* C6: a decoded root item with no tag is rejected as MissingTag, one with
\* more than one tag as MultipleTags, one with a single tag other than the
\* package tag as WrongTag; the validation goes past the tag check only
\* with exactly one tag equal to the package tag.
C6_TagCheckOutcomes ==
    /\ ParseReturned /\ Decoded =>
          /\ Len(pkg_item.tags) = 0 =>
                p_ret = FALSE /\ Reason(p_log) = "MissingTag"
          /\ Len(pkg_item.tags) > 1 =>
                p_ret = FALSE /\ Reason(p_log) = "MultipleTags"
          /\ Len(pkg_item.tags) = 1 /\ pkg_item.tags[1] # APPLOADER_PACKAGE_CBOR_TAG_APP =>
                /\ p_ret = FALSE
                /\ Reason(p_log) = "WrongTag"
                /\ p_log.args = << pkg_item.tags[1] >>
    /\ PastTagCheck => OneCorrectTag

\* an item with a single tag that is not the package tag has been rejected
C6_Witness ==
    /\ Rejected
    /\ Decoded
    /\ Len(pkg_item.tags) = 1
    /\ pkg_item.tags[1] # APPLOADER_PACKAGE_CBOR_TAG_APP
    /\ Reason(p_log) = "WrongTag"

\* C10: every array access reads an index below the array's size: element 0
\* only of a non-empty array, elements 1, 2 and 3 only of an array of
\* exactly 4 elements.
C10_ArrayAccessInBounds ==
    \A r \in reads :
        /\ r[1] < r[2]
        /\ r[1] >= 1 => r[2] = 4

\* an array of 2 elements with the supported version has been rejected
\* after its element 0 was read
C10_Witness ==
    /\ Rejected
    /\ TaggedArray
    /\ size(pkg_item) = 2
    /\ Elem(0) = Uint(APPLOADER_PACKAGE_FORMAT_VERSION_CURRENT)
    /\ reads = { << 0, 2 >> }
    /\ Reason(p_log) = "WrongElementCount"

=============================================================================
